---------------------------- MODULE Spec2Model ----------------------------
(***************************************************************************)
(* A model of src/src/scripts/tuner.ts: the autocorrelation pitch          *)
(* estimator, the note table and nearest-note lookup, and the listening    *)
(* session (start/stop, animation-frame ticks, mode and target selection). *)
(*                                                                         *)
(* Numbers.  JavaScript numbers are modelled as records                    *)
(*   [k |-> "num", n |-> numerator, d |-> denominator > 0]   a rational    *)
(*   [k |-> "nan"], [k |-> "pinf"], [k |-> "ninf"]           NaN, +-Inf    *)
(* Samples are integers counted in units of 1/SampleUnit, so a correlation *)
(* (a sum of products of samples) is an integer counted in units of        *)
(* 1/SampleUnit^2; a correlation slot that holds NaN is the record NaNc.   *)
(*                                                                         *)
(* Scale.  The analysis window (2048) and the buffer (4096) are divided by *)
(* Shrink so that TLC can enumerate buffers; the frequency bounds 65 Hz    *)
(* and 1000 Hz are kept, and the sample rates are chosen so that every     *)
(* relation the code depends on occurs: minLag = 0 and minLag >= 1, and    *)
(* window + maxLag within and beyond the buffer.                           *)
(***************************************************************************)
EXTENDS Integers, Sequences, FiniteSets, TLC

(***************************************************************************)
(* Program constants (tuner.ts lines 10-43, 115) and the model's bounds.   *)
(***************************************************************************)
FFT_SIZE == 4096
MIN_FREQUENCY == 65
MAX_FREQUENCY == 1000
WINDOW_SIZE == 2048
A4_NOTE_NUMBER == 57
LAST_OCTAVE == 8

\* rms < 0.005, kept as the rational 1/200
MIN_RMS_THRESHOLD == [n |-> 1, d |-> 200]
\* maxCorrelation < 0.01, kept as the rational 1/100
MIN_CORRELATION == [n |-> 1, d |-> 100]
\* correlations[lag] > 0.9 * correlations[0], kept as the rational 9/10
EARLY_EXIT_RATIO == [n |-> 9, d |-> 10]

NOTE_NAMES == <<"C", "C#", "D", "D#", "E", "F", "F#", "G", "G#", "A", "A#", "B">>

\* The model divides the buffer length and the window by Shrink.
Shrink == 128
\* One sample unit is 1/SampleUnit of full scale.
SampleUnit == 100
\* At most MaxPending startAudio calls wait for getUserMedia at a time.
MaxPending == 2
\* At most MaxScheduled animation-frame callbacks are queued at a time.
MaxScheduled == 2

fftSize == FFT_SIZE \div Shrink
windowSize == WINDOW_SIZE \div Shrink

(***************************************************************************)
(* JavaScript numbers.                                                     *)
(***************************************************************************)
Num(n, d) == [k |-> "num", n |-> n, d |-> d]
NaN == [k |-> "nan", n |-> 0, d |-> 1]
PosInf == [k |-> "pinf", n |-> 0, d |-> 1]
NegInf == [k |-> "ninf", n |-> 0, d |-> 1]

Abs(x) == IF x < 0 THEN -x ELSE x

RECURSIVE Gcd(_, _)
Gcd(a, b) == IF b = 0 THEN a ELSE Gcd(b, a % b)

\* The rational n/d in lowest terms with a positive denominator (d # 0).
Ratio(n, d) ==
    LET g == Gcd(Abs(n), Abs(d))
        s == IF d < 0 THEN -1 ELSE 1
    IN  Num(s * (n \div g), s * (d \div g))

\* x > 0 in JavaScript: false for NaN.
IsPositive(x) ==
    \/ x.k = "pinf"
    \/ x.k = "num" /\ x.n > 0

IsFinite(x) == x.k = "num"

\* sampleRate / refinedLag in JavaScript (sampleRate a positive integer).
DivideInt(sampleRate, x) ==
    CASE x.k = "nan" -> NaN
      [] x.k \in {"pinf", "ninf"} -> Num(0, 1)
      [] x.k = "num" /\ x.n = 0 -> PosInf
      [] OTHER -> Ratio(sampleRate * x.d, x.n)

(***************************************************************************)
(* Correlation slots: an integer count of 1/SampleUnit^2, or NaN.          *)
(***************************************************************************)
Corr(v) == [nan |-> FALSE, v |-> v]
NaNc == [nan |-> TRUE, v |-> 0]

\* a > b on correlation slots; any comparison with NaN or undefined is false.
CorrGt(a, b) == ~a.nan /\ ~b.nan /\ a.v > b.v

\* buffer[i] of a Float32Array (index from 0): undefined beyond the end.
ReadSample(buffer, i) ==
    IF 0 <= i /\ i < Len(buffer) THEN Corr(buffer[i + 1]) ELSE NaNc

\* buffer[i] * buffer[i + lag]: undefined * x is NaN.
Product(buffer, i, lag) ==
    LET x == ReadSample(buffer, i)
        y == ReadSample(buffer, i + lag)
    IN  IF x.nan \/ y.nan THEN NaNc ELSE Corr(x.v * y.v)

\* x + y on correlation slots: NaN if either is.
CorrAdd(x, y) == IF x.nan \/ y.nan THEN NaNc ELSE Corr(x.v + y.v)

\* lines 119-122: the inner loop over the window, the sum of the products
\* for i = from .. to taken by halves.
RECURSIVE Correlation(_, _, _, _)
Correlation(buffer, lag, from, to) ==
    IF from > to THEN Corr(0)
    ELSE IF from = to THEN Product(buffer, from, lag)
    ELSE LET mid == (from + to) \div 2
         IN  CorrAdd(Correlation(buffer, lag, from, mid),
                     Correlation(buffer, lag, mid + 1, to))

minLagOf(sampleRate) == sampleRate \div MAX_FREQUENCY
maxLagOf(sampleRate) == sampleRate \div MIN_FREQUENCY

\* lines 116-124: new Float32Array(maxLag + 1) is all zeros, and the slots
\* minLag..maxLag are then written.  Slot `lag` is element lag + 1; the
\* slots from .. to are built by halves.
RECURSIVE CorrelationSlots(_, _, _, _)
CorrelationSlots(buffer, sampleRate, from, to) ==
    IF from > to THEN <<>>
    ELSE IF from = to
    THEN << IF from >= minLagOf(sampleRate)
            THEN Correlation(buffer, from, 0, windowSize - 1)
            ELSE Corr(0) >>
    ELSE LET mid == (from + to) \div 2
         IN  CorrelationSlots(buffer, sampleRate, from, mid)
               \o CorrelationSlots(buffer, sampleRate, mid + 1, to)

Correlations(buffer, sampleRate) ==
    CorrelationSlots(buffer, sampleRate, 0, maxLagOf(sampleRate))

\* correlations[i]: undefined outside 0..maxLag (compares false like NaN).
Slot(correlations, i) ==
    IF 0 <= i /\ i < Len(correlations) THEN correlations[i + 1] ELSE NaNc

\* The candidate test with the comparison against the next slot left out.
IsPeakLeftOnly(correlations, lag) ==
    CorrGt(Slot(correlations, lag), Slot(correlations, lag - 1))

\* lines 128-131: the candidate test.
IsPeak(correlations, lag) ==
    /\ CorrGt(Slot(correlations, lag), Slot(correlations, lag - 1))
    /\ CorrGt(Slot(correlations, lag), Slot(correlations, lag + 1))

\* The scan without its break: it runs to maxLag and keeps the highest peak.
EarlyExitNever(correlations, lag) == FALSE

\* line 136: correlations[lag] > 0.9 * correlations[0].
EarlyExit(correlations, lag) ==
    LET c == Slot(correlations, lag)
        z == Slot(correlations, 0)
    IN  ~c.nan /\ ~z.nan /\ c.v * EARLY_EXIT_RATIO.d > EARLY_EXIT_RATIO.n * z.v

\* lines 127-140: the scan; bestLag = -1 stands for maxCorrelation = -Infinity.
RECURSIVE PickPeak(_, _, _, _)
PickPeak(correlations, lag, maxLag, bestLag) ==
    IF lag > maxLag THEN bestLag
    ELSE IF IsPeak(correlations, lag)
         THEN LET better == \/ bestLag = -1
                            \/ CorrGt(Slot(correlations, lag), Slot(correlations, bestLag))
                  best == IF better THEN lag ELSE bestLag
              IN  IF EarlyExit(correlations, lag) THEN best
                  ELSE PickPeak(correlations, lag + 1, maxLag, best)
         ELSE PickPeak(correlations, lag + 1, maxLag, bestLag)

\* line 142: maxCorrelation < 0.01, in units of 1/SampleUnit^2.
BelowFloor(c) == c.v * MIN_CORRELATION.d < MIN_CORRELATION.n * SampleUnit * SampleUnit

\* lines 145-155: parabolic interpolation.  a = (y1 + y3 - 2 y2) / 2 and
\* b = (y3 - y1) / 2, so b / (2a) = (y3 - y1) / (2 (y1 + y3 - 2 y2)).
RefinedLag(correlations, bestLag, maxLag) ==
    IF bestLag > 0 /\ bestLag < maxLag
    THEN LET y1 == Slot(correlations, bestLag - 1)
             y2 == Slot(correlations, bestLag)
             y3 == Slot(correlations, bestLag + 1)
         IN  IF y1.nan \/ y2.nan \/ y3.nan THEN NaN
             ELSE LET a2 == y1.v + y3.v - 2 * y2.v
                      b2 == y3.v - y1.v
                  IN  IF a2 # 0
                      THEN Ratio(bestLag * 2 * a2 - b2, 2 * a2)
                      ELSE Num(bestLag, 1)
    ELSE Num(bestLag, 1)

SumSquares(buffer) ==
    LET RECURSIVE Sum(_)
        Sum(i) == IF i = 0 THEN 0 ELSE buffer[i] * buffer[i] + Sum(i - 1)
    IN  Sum(Len(buffer))

\* The gate with the sum of squares not divided by SIZE.
RmsOfSumBelowThreshold(buffer) ==
    /\ Len(buffer) > 0
    /\ SumSquares(buffer) * MIN_RMS_THRESHOLD.d * MIN_RMS_THRESHOLD.d
         < MIN_RMS_THRESHOLD.n * MIN_RMS_THRESHOLD.n * SampleUnit * SampleUnit

\* lines 100-106: rms = sqrt(sumSquares / SIZE) < MIN_RMS_THRESHOLD, squared:
\* sumSquares / (SampleUnit^2 * SIZE) < (n/d)^2.  An empty buffer gives NaN,
\* which is not below the threshold.
RmsBelowThreshold(buffer) ==
    /\ Len(buffer) > 0
    /\ SumSquares(buffer) * MIN_RMS_THRESHOLD.d * MIN_RMS_THRESHOLD.d
         < MIN_RMS_THRESHOLD.n * MIN_RMS_THRESHOLD.n * SampleUnit * SampleUnit * Len(buffer)

\* A read of buffer[i + lag] beyond the buffer (line 121) is what leaves a
\* NaN in a slot: the sum it went into is NaN.
ReadsBeyondBuffer(correlations) ==
    \E i \in 1..Len(correlations) : correlations[i].nan

NoSignal == Num(-1, 1)

\* lines 96-158.  The record keeps, beside the returned value, what the call
\* did on the way: whether the RMS gate returned, whether the correlation
\* loop ran and read beyond the buffer, whether an error was thrown, and
\* bestLag and refinedLag.
Estimate(buffer, sampleRate) ==
    IF RmsBelowThreshold(buffer)
    THEN [value |-> NoSignal, gate |-> TRUE, loopRan |-> FALSE, beyond |-> FALSE,
          threw |-> FALSE, bestLag |-> -1, refinedLag |-> Num(-1, 1)]
    ELSE LET maxLag == maxLagOf(sampleRate)
             minLag == minLagOf(sampleRate)
             correlations == Correlations(buffer, sampleRate)
             bestLag == PickPeak(correlations, minLag, maxLag, -1)
             beyond == ReadsBeyondBuffer(correlations)
         IN  IF bestLag = -1 \/ BelowFloor(Slot(correlations, bestLag))
             THEN [value |-> NoSignal, gate |-> FALSE, loopRan |-> TRUE,
                   beyond |-> beyond, threw |-> FALSE, bestLag |-> bestLag,
                   refinedLag |-> Num(-1, 1)]
             ELSE LET refinedLag == RefinedLag(correlations, bestLag, maxLag)
                  IN  [value |-> DivideInt(sampleRate, refinedLag), gate |-> FALSE,
                       loopRan |-> TRUE, beyond |-> beyond, threw |-> FALSE,
                       bestLag |-> bestLag, refinedLag |-> refinedLag]

autocorrelate(buffer, sampleRate) == Estimate(buffer, sampleRate).value

(***************************************************************************)
(* The note table (lines 9-36) and the resolver (lines 167-195).           *)
(*                                                                         *)
(* A frequency is a JavaScript number (above) or an entry of the equal-    *)
(* tempered table, kept symbolically as Tempered(noteNumber), which stands *)
(* for 440 * 2^((noteNumber - 57) / 12).  Math.log2 is computed in fixed   *)
(* point, bit by bit, by repeated squaring of a 14-bit mantissa; pitch     *)
(* distances are integer cents, exact for table entries and within a few   *)
(* cents for measured frequencies.                                         *)
(***************************************************************************)
Tempered(noteNumber) == [k |-> "et", n |-> noteNumber, d |-> 1]

\* lines 26-36: the nested loops push one entry per (octave, i).
RECURSIVE PushOctave(_, _, _)
PushOctave(table, octave, i) ==
    IF i >= 12 THEN table
    ELSE PushOctave(Append(table, [note |-> NOTE_NAMES[i + 1],
                                   frequency |-> Tempered(octave * 12 + i)]),
                    octave, i + 1)

RECURSIVE PushOctaves(_, _)
PushOctaves(table, octave) ==
    IF octave > LAST_OCTAVE THEN table
    ELSE PushOctaves(PushOctave(table, octave, 0), octave + 1)

NOTE_FREQUENCIES == PushOctaves(<<>>, 0)

\* NOTE_FREQUENCIES[index] with the index counted from 0 as in the source.
TableAt(index) == NOTE_FREQUENCIES[index + 1]

MantissaBits == 14
FractionBits == 10

Pow2(e) == 2 ^ e

\* n/d brought into [1, 2) by doubling, with the exponent taken out.
RECURSIVE Normalize(_, _, _)
Normalize(n, d, e) ==
    IF n >= 2 * d
    THEN IF d < Pow2(29) THEN Normalize(n, 2 * d, e + 1)
                         ELSE Normalize(n \div 2, d, e + 1)
    ELSE IF n < d
         THEN IF n < Pow2(29) THEN Normalize(2 * n, d, e - 1)
                              ELSE Normalize(n, d \div 2, e - 1)
         ELSE [n |-> n, d |-> d, e |-> e]

\* Both halved until the division below fits 31 bits.
RECURSIVE Narrow(_, _)
Narrow(n, d) ==
    IF d >= Pow2(16) THEN Narrow(n \div 2, d \div 2) ELSE [n |-> n, d |-> d]

\* The fraction bits of log2 of a mantissa m / 2^14 in [1, 2).
RECURSIVE FractionOf(_, _, _)
FractionOf(m, bits, acc) ==
    IF bits = 0 THEN acc
    ELSE LET sq == (m * m) \div Pow2(MantissaBits)
         IN  IF sq >= Pow2(MantissaBits + 1)
             THEN FractionOf(sq \div 2, bits - 1, 2 * acc + 1)
             ELSE FractionOf(sq, bits - 1, 2 * acc)

\* Math.log2(n / d) for n, d > 0, in units of 1 / 2^FractionBits.
Log2(n, d) ==
    LET z == Normalize(n, d, 0)
        w == Narrow(z.n, z.d)
        m == (w.n * Pow2(MantissaBits)) \div w.d
    IN  z.e * Pow2(FractionBits) + FractionOf(m, FractionBits, 0)

\* 1200 * log2(f / 440) in whole cents, for a positive finite frequency.
CentsFromA4(f) ==
    IF f.k = "et" THEN (f.n - A4_NOTE_NUMBER) * 100
    ELSE (1200 * Log2(f.n, f.d * 440)) \div Pow2(FractionBits)

\* line 172-173: Math.round(12 * log2(frequency / 440)) + 57; Math.round
\* rounds halves up, and 12 * log2 is cents / 100.
NoteIndex(frequency) ==
    ((CentsFromA4(frequency) + 50) \div 100) + A4_NOTE_NUMBER

Placeholder == [note |-> "--", octave |-> 0, frequency |-> Num(0, 1)]

\* The resolver with octaves counted from -1 (index 57 would be A3).
findClosestNoteOctaveFromMinusOne(frequency) ==
    IF frequency.k = "pinf" THEN Placeholder
    ELSE LET noteIndex == NoteIndex(frequency)
         IN  IF noteIndex < 0 \/ noteIndex >= Len(NOTE_FREQUENCIES)
             THEN Placeholder
             ELSE [note |-> NOTE_NAMES[(noteIndex % 12) + 1],
                   octave |-> (noteIndex \div 12) - 1,
                   frequency |-> TableAt(noteIndex).frequency]

\* lines 167-188, for a frequency that passed `frequency > 0` (line 274):
\* a positive rational or +Infinity, whose note index is +Infinity.
findClosestNote(frequency) ==
    IF frequency.k = "pinf" THEN Placeholder
    ELSE LET noteIndex == NoteIndex(frequency)
         IN  IF noteIndex < 0 \/ noteIndex >= Len(NOTE_FREQUENCIES)
             THEN Placeholder
             ELSE LET octave == noteIndex \div 12
                      noteInOctave == noteIndex % 12
                      targetFrequency == TableAt(noteIndex).frequency
                  IN  [note |-> NOTE_NAMES[noteInOctave + 1],
                       octave |-> octave,
                       frequency |-> targetFrequency]

\* lines 193-195: 1200 * Math.log2(detected / target), detected > 0:
\* log2(detected / target) = log2(detected / 440) - log2(target / 440);
\* a target of 0 makes the quotient, and the result, +Infinity.
calculateCents(detected, target) ==
    CASE target.k = "num" /\ target.n = 0 -> PosInf
      [] detected.k = "pinf" -> PosInf
      [] OTHER -> Num(CentsFromA4(detected) - CentsFromA4(target), 1)

(***************************************************************************)
(* Inputs: the frames the analyser hands over, the device's sample rate    *)
(* and the string buttons.                                                 *)
(***************************************************************************)
\* A frame of fftSize samples: `gain * cycle` repeated, silent before onset.
RECURSIVE WaveFrom(_, _, _, _)
WaveFrom(cycle, gain, onset, frame) ==
    IF Len(frame) >= fftSize THEN frame
    ELSE WaveFrom(cycle, gain, onset,
             Append(frame,
                    IF Len(frame) < onset THEN 0
                    ELSE gain * cycle[((Len(frame) - onset) % Len(cycle)) + 1]))

Wave(cycle, gain, onset) == WaveFrom(cycle, gain, onset, <<>>)

\* A burst followed by silence.
Burst(samples) == WaveFrom(<<0>>, 0, 0, samples)

Frames ==
    { Wave(<<1>>, 0, 0),                      \* silence
      Wave(<<1>>, 1, fftSize - 1),            \* one faint sample: RMS under the threshold
      Wave(<<1>>, 3, fftSize - 1),            \* one sample past the window: no correlation
      Burst(<<-3, 2, 1, 1>>),                 \* correlation <= 0 at every lag
      Wave(<<1, -1>>, 1, 0),                  \* a faint tone: peak under the floor
      Wave(<<2, 10>>, 1, 0),                  \* a tone of two samples a cycle
      Wave(<<3, -1, 2, -1, 3, -3>>, 3, 0),    \* a higher peak follows the first
      Wave(<<-3, -1, 1, 2, -3, 1>>, 3, 0),    \* negative peak, faint peak, high peak
      Wave(<<-3, -1, 1, 2, -3, 1>>, 4, 0),
      Wave(<<1, 2, 3, 2, 1, 0, -1, -2, -3, -2, -1, 0>>, 3, 0) }

\* audioContext.sampleRate of the device (scaled with the buffer): 500 gives
\* minLag = 0; 1040 gives minLag = 1 and window + maxLag within the buffer;
\* 1500 gives window + maxLag beyond the buffer.
SampleRates == {500, 1040, 1500}

\* The string buttons' data-note, data-octave and data-frequency.
Targets ==
    { [note |-> "E", octave |-> 2, frequency |-> Num(8241, 100)],
      [note |-> "A", octave |-> 2, frequency |-> Num(110, 1)] }

\* autocorrelate and its correlations on every input, computed once.
EstimateOf == [b \in Frames, r \in SampleRates |-> Estimate(b, r)]
CorrelationsOf == [b \in Frames, r \in SampleRates |-> Correlations(b, r)]

(***************************************************************************)
(* The session: tuner.ts lines 72-86 (state) and 268-434 (handlers).       *)
(***************************************************************************)
null == [null |-> TRUE]

VARIABLES
    audioContext,      \* null or "AudioContext"
    analyser,          \* null or "AnalyserNode"
    microphone,        \* null or "MediaStreamAudioSourceNode"
    isListening,
    animationFrameId,  \* 0 for null, else the id of the last request
    currentMode,
    selectedNote,
    statusBar,         \* statusBar.textContent
    contextSampleRate, \* audioContext.sampleRate: the device's rate
    scheduled,         \* ids of the animation-frame callbacks not yet run
    pending,           \* startAudio calls awaiting getUserMedia: those made
                       \* since the last stop (fresh) and before it (stale)
    quiet,             \* history: stopped, and no start made since has acquired
    ev                 \* history: what the last handler did

vars == <<audioContext, analyser, microphone, isListening, animationFrameId,
          currentMode, selectedNote, statusBar, contextSampleRate, scheduled, pending,
          quiet, ev>>

NoResult == [frequency |-> NaN, note |-> "", octave |-> 0, cents |-> NaN]

\* A handler that did not call audioLoop.
Did(op) ==
    [op |-> op, ran |-> FALSE, analysed |-> FALSE, frame |-> <<>>,
     frequency |-> NaN, emitted |-> "none", target |-> null, result |-> NoResult,
     rescheduled |-> FALSE, priorMode |-> "", priorNote |-> null]

\* statusBar.textContent as the handlers write it, in ASCII: without the
\* leading emoji and accents, and the tuning text without its "(x Hz)".
STATUS_IDLE == "Presiona el boton para comenzar"
STATUS_LISTENING == "Escuchando... Toca una cuerda"
STATUS_WAITING == "Esperando audio..."
STATUS_ERROR == "Error: No se pudo acceder al microfono"
STATUS_AUTO == "Modo Auto: Detectando cualquier nota..."
STATUS_MANUAL == "Modo Manual: Selecciona una cuerda para afinar"
StatusTuning(note, octave) == "Afinando a " \o note \o ToString(octave)

Init ==
    /\ audioContext = "null"
    /\ analyser = "null"
    /\ microphone = "null"
    /\ isListening = FALSE
    /\ animationFrameId = 0
    /\ currentMode = "auto"
    /\ selectedNote = null
    /\ statusBar = STATUS_IDLE
    /\ contextSampleRate \in SampleRates
    /\ scheduled = {}
    /\ pending = [fresh |-> 0, stale |-> 0]
    /\ quiet = FALSE
    /\ ev = Did("load")

\* requestAnimationFrame's id.  Only equality with the ids still queued
\* matters, so the least id not queued is handed out.
NextFrameId(queued) == CHOOSE id \in 1..(Cardinality(queued) + 1) : id \notin queued

\* The tick with the manual branch left out: always the nearest table note.
TargetForNearest(frequency) == findClosestNote(frequency)

\* lines 279-288: the target the deviation is measured against.
TargetFor(frequency) ==
    IF currentMode = "manual" /\ selectedNote # null
    THEN selectedNote
    ELSE findClosestNote(frequency)

\* lines 274-296: audioLoop after the estimate, on the frame it analysed;
\* `queued` are the callbacks still queued and `status` the status text
\* when audioLoop runs.
AudioLoopWith(op, frame, frequency, queued, status) ==
    LET id == NextFrameId(queued)
        target == TargetFor(frequency)
        result == [frequency |-> frequency, note |-> target.note,
                   octave |-> target.octave,
                   cents |-> calculateCents(frequency, target.frequency)]
    IN  /\ IF IsPositive(frequency)
           THEN /\ statusBar' = status
                /\ ev' = [Did(op) EXCEPT !.ran = TRUE, !.analysed = TRUE,
                             !.frame = frame, !.frequency = frequency,
                             !.emitted = "result", !.target = target,
                             !.result = result,
                             !.rescheduled = TRUE]
           ELSE /\ statusBar' = STATUS_WAITING
                /\ ev' = [Did(op) EXCEPT !.ran = TRUE, !.analysed = TRUE,
                             !.frame = frame, !.frequency = frequency,
                             !.emitted = "waiting", !.rescheduled = TRUE]
        /\ scheduled' = queued \cup {id}
        /\ animationFrameId' = id

\* lines 271-272 and on: the frame is read and estimated.
Analyse(op, queued) ==
    \E frame \in Frames :
        AudioLoopWith(op, frame, EstimateOf[frame, contextSampleRate].value, queued,
                      statusBar)

\* lines 268-297 run as an animation-frame callback.
AnimationFrame(id) ==
    /\ id \in scheduled
    /\ IF analyser = "null" \/ ~isListening
       THEN /\ scheduled' = scheduled \ {id}
            /\ ev' = [Did("audioLoop") EXCEPT !.ran = TRUE]
            /\ UNCHANGED <<statusBar, animationFrameId>>
       ELSE Analyse("audioLoop", scheduled \ {id})
    /\ UNCHANGED <<audioContext, analyser, microphone, isListening, currentMode,
                   selectedNote, contextSampleRate, pending, quiet>>

\* lines 303-312: startAudio up to the await.
startAudio ==
    /\ pending.fresh + pending.stale < MaxPending
    /\ audioContext' = "AudioContext"
    /\ pending' = [pending EXCEPT !.fresh = @ + 1]
    /\ ev' = Did("startAudio")
    /\ UNCHANGED <<analyser, microphone, isListening, animationFrameId, currentMode,
                   selectedNote, statusBar, contextSampleRate, scheduled, quiet>>

\* lines 335-357.
stopAudio(op) ==
    /\ isListening' = FALSE
    /\ IF animationFrameId # 0
       THEN scheduled' = scheduled \ {animationFrameId}
       ELSE scheduled' = scheduled
    /\ animationFrameId' = 0
    /\ microphone' = "null"
    /\ audioContext' = "null"
    /\ analyser' = "null"
    /\ statusBar' = STATUS_IDLE
    /\ pending' = [fresh |-> 0, stale |-> pending.stale + pending.fresh]
    /\ quiet' = TRUE
    /\ ev' = Did(op)
    /\ UNCHANGED <<currentMode, selectedNote, contextSampleRate>>

\* lines 415-418.
ClickStart ==
    /\ IF isListening THEN stopAudio("click") ELSE startAudio

\* lines 432-434, with document.hidden.
VisibilityHidden ==
    /\ isListening
    /\ stopAudio("visibilitychange")

\* lines 314-328: getUserMedia resolved for a call made since the last stop
\* (fresh) or before it.  createMediaStreamSource on a closed-and-nulled
\* audioContext throws, which lines 329-332 catch.
GetUserMediaResolved(fresh) ==
    /\ IF fresh THEN pending.fresh > 0 ELSE pending.stale > 0
    /\ pending' = IF fresh THEN [pending EXCEPT !.fresh = @ - 1]
                           ELSE [pending EXCEPT !.stale = @ - 1]
    /\ IF audioContext = "null"
       THEN /\ statusBar' = STATUS_ERROR
            /\ ev' = Did("startAudio catch")
            /\ UNCHANGED <<analyser, microphone, isListening, animationFrameId,
                           scheduled, quiet>>
       ELSE /\ Cardinality(scheduled) < MaxScheduled
            /\ microphone' = "MediaStreamAudioSourceNode"
            /\ analyser' = "AnalyserNode"
            /\ isListening' = TRUE
            /\ quiet' = (quiet /\ ~fresh)
            \* line 326 writes the status, line 328 calls audioLoop
            /\ \E frame \in Frames :
                 AudioLoopWith("startAudio", frame,
                               EstimateOf[frame, contextSampleRate].value, scheduled,
                               STATUS_LISTENING)
    /\ UNCHANGED <<audioContext, currentMode, selectedNote, contextSampleRate>>

\* lines 329-332: getUserMedia rejected (permission denied, no device).
GetUserMediaRejected(fresh) ==
    /\ IF fresh THEN pending.fresh > 0 ELSE pending.stale > 0
    /\ pending' = IF fresh THEN [pending EXCEPT !.fresh = @ - 1]
                           ELSE [pending EXCEPT !.stale = @ - 1]
    /\ statusBar' = STATUS_ERROR
    /\ ev' = Did("startAudio catch")
    /\ UNCHANGED <<audioContext, analyser, microphone, isListening, animationFrameId,
                   currentMode, selectedNote, contextSampleRate, scheduled, quiet>>

Selected(op) == [Did(op) EXCEPT !.priorMode = currentMode, !.priorNote = selectedNote]

\* lines 363-376.
setAutoMode ==
    /\ currentMode' = "auto"
    /\ selectedNote' = null
    /\ statusBar' = IF isListening THEN STATUS_AUTO ELSE statusBar
    /\ ev' = Selected("setAutoMode")
    /\ UNCHANGED <<audioContext, analyser, microphone, isListening, animationFrameId,
                   contextSampleRate, scheduled, pending, quiet>>

\* lines 378-390.
setManualMode ==
    /\ currentMode' = "manual"
    /\ statusBar' = IF isListening /\ selectedNote = null THEN STATUS_MANUAL
                                                         ELSE statusBar
    /\ ev' = Selected("setManualMode")
    /\ UNCHANGED <<audioContext, analyser, microphone, isListening, animationFrameId,
                   selectedNote, contextSampleRate, scheduled, pending, quiet>>

\* selectNote without the switch to manual mode of line 399.
selectNoteKeepingMode(target) ==
    /\ selectedNote' = target
    /\ statusBar' = IF isListening THEN StatusTuning(target.note, target.octave)
                                   ELSE statusBar
    /\ ev' = Selected("selectNote")
    /\ UNCHANGED <<audioContext, analyser, microphone, isListening, animationFrameId,
                   currentMode, contextSampleRate, scheduled, pending, quiet>>

\* lines 392-409 (and 423-430): selectedNote is assigned first, so the
\* setManualMode called at line 399 writes no status.
selectNote(target) ==
    /\ selectedNote' = target
    /\ currentMode' = "manual"
    /\ statusBar' = IF isListening THEN StatusTuning(target.note, target.octave)
                                   ELSE statusBar
    /\ ev' = Selected("selectNote")
    /\ UNCHANGED <<audioContext, analyser, microphone, isListening, animationFrameId,
                   contextSampleRate, scheduled, pending, quiet>>

Next ==
    \/ ClickStart
    \/ VisibilityHidden
    \/ \E fresh \in BOOLEAN : GetUserMediaResolved(fresh)
    \/ \E fresh \in BOOLEAN : GetUserMediaRejected(fresh)
    \/ \E id \in scheduled : AnimationFrame(id)
    \/ setAutoMode
    \/ setManualMode
    \/ \E target \in Targets : selectNote(target)

Spec == Init /\ [][Next]_vars

(***************************************************************************)
(* The resolver on its own.  The estimator only returns frequencies the    *)
(* table covers, so findClosestNote (lines 167-188) is also run from a     *)
(* listening session on ticks whose estimate is drawn from a range wider   *)
(* than the table: every semitone from 13.75 Hz (below C0) up to the       *)
(* twelfth above A9 (above B8), and +Infinity.                             *)
(***************************************************************************)
MaxOctave == 10

\* 1000 * 2^(i/12), rounded, for i = 0..11.
Semitones == {1000, 1059, 1122, 1189, 1260, 1335, 1414, 1498, 1587, 1682, 1782, 1888}

TestFrequencies ==
    { Ratio(440 * r * (2 ^ o), 32000) : r \in Semitones, o \in 0..MaxOctave }
      \cup { PosInf }

InitResolve ==
    /\ audioContext = "AudioContext"
    /\ analyser = "AnalyserNode"
    /\ microphone = "MediaStreamAudioSourceNode"
    /\ isListening = TRUE
    /\ animationFrameId = 1
    /\ currentMode = "auto"
    /\ selectedNote = null
    /\ statusBar = STATUS_LISTENING
    /\ contextSampleRate \in SampleRates
    /\ scheduled = {1}
    /\ pending = [fresh |-> 0, stale |-> 0]
    /\ quiet = FALSE
    /\ ev = Did("load")

\* lines 274-296 as an animation-frame callback whose estimate is `frequency`.
ResolveTick ==
    /\ analyser # "null" /\ isListening
    /\ \E id \in scheduled, frequency \in TestFrequencies :
         AudioLoopWith("audioLoop", <<>>, frequency, scheduled \ {id}, statusBar)
    /\ UNCHANGED <<audioContext, analyser, microphone, isListening, currentMode,
                   selectedNote, contextSampleRate, pending, quiet>>

NextResolve ==
    \/ ResolveTick
    \/ setAutoMode
    \/ setManualMode
    \/ \E target \in Targets : selectNote(target)

SpecResolve == InitResolve /\ [][NextResolve]_vars

(***************************************************************************)
(* Properties.  `ev` holds what the last handler did, so a state predicate *)
(* on `ev` speaks about every handler run in every behaviour.              *)
(***************************************************************************)

\* C1: while a target set by selectNote is live (no setAutoMode since), every
\* tick that emits a result reports that target's note name and octave,
\* whatever frequency was detected and whatever note is nearest to it.
C1_ManualTargetStability ==
    (ev.emitted = "result" /\ selectedNote # null)
        => /\ ev.result.note = selectedNote.note
           /\ ev.result.octave = selectedNote.octave

\* C1 happens: a tick reported the target although the nearest note differs.
C1_TargetReportedOverNearest ==
    /\ ev.op = "audioLoop" /\ ev.emitted = "result"
    /\ selectedNote # null
    /\ findClosestNote(ev.frequency).note # selectedNote.note
    /\ ev.result.note = selectedNote.note

\* C2: in Manual mode with no target selected, a tick whose estimate is a
\* frequency emits no detection result (no note, octave or cents).
C2_NoResultWithoutTarget ==
    (ev.analysed /\ currentMode = "manual" /\ selectedNote = null
       /\ IsPositive(ev.frequency))
        => /\ ev.emitted # "result"
           /\ ev.result = NoResult

\* C3: in every reachable state, Mode = Auto implies that no target is live.
C3_AutoHasNoTarget == currentMode = "auto" => selectedNote = null

\* C3 happens: a target was selected while in Auto, and the mode is Manual.
C3_SelectedFromAuto ==
    /\ ev.op = "selectNote" /\ ev.priorMode = "auto"
    /\ currentMode = "manual" /\ selectedNote # null

\* C4: the estimator never reads the buffer at an index >= its length; on a
\* buffer shorter than windowSize + maxLag the call fails with an error
\* (and so returns neither NoSignal nor a frequency).
C4_NoReadBeyondBuffer ==
    ev.analysed =>
        LET e == EstimateOf[ev.frame, contextSampleRate]
        IN  /\ ~e.beyond
            /\ Len(ev.frame) < windowSize + maxLagOf(contextSampleRate) => e.threw

\* C5: for a frame that is all zeros or whose RMS is below 0.005,
\* autocorrelate returns NoSignal before the correlation loop runs, and the
\* tick emits only the "waiting for audio" status and no detection result.
C5_SilenceWaits ==
    (/\ ev.analysed
     /\ \/ \A i \in 1..Len(ev.frame) : ev.frame[i] = 0
        \/ SumSquares(ev.frame) * 40000 < SampleUnit * SampleUnit * Len(ev.frame))
        => /\ EstimateOf[ev.frame, contextSampleRate].value = NoSignal
           /\ ~EstimateOf[ev.frame, contextSampleRate].loopRan
           /\ ev.frequency = NoSignal
           /\ ev.emitted = "waiting"
           /\ ev.result = NoResult
           /\ statusBar = STATUS_WAITING

\* C5 happens: a tick analysed a frame that is not all zeros but is below
\* the threshold, and emitted the waiting status.
C5_FaintFrameWaited ==
    /\ ev.analysed
    /\ \E i \in 1..Len(ev.frame) : ev.frame[i] # 0
    /\ SumSquares(ev.frame) * 40000 < SampleUnit * SampleUnit * Len(ev.frame)
    /\ ev.emitted = "waiting"

\* C6: after a stop action, and until a start made later has finished
\* acquiring the microphone, no tick analyses a frame, emits a result or a
\* status, or schedules a further tick.
C6_NoTickWhileStopped ==
    quiet => ~(ev.analysed \/ ev.rescheduled \/ ev.emitted # "none")

\* C7: at most one audioLoop tick is scheduled at any time.
C7_SingleTickChain == Cardinality(scheduled) <= 1

\* C8: for the rounded note index k of the detected frequency,
\* findClosestNote answers the placeholder exactly when k < 0 or k >= 108
\* (+Infinity counts as k >= 108), and otherwise the table entry at index k,
\* with octave k div 12 and name NOTE_NAMES[k mod 12], the name the table
\* stores at k (index 57 is A4); either way the tick schedules the next one.
C8_ResolverMapping ==
    (ev.op = "audioLoop" /\ ev.emitted = "result"
       /\ ~(currentMode = "manual" /\ selectedNote # null))
        => /\ ev.rescheduled
           /\ animationFrameId \in scheduled
           /\ IF ev.frequency.k = "pinf"
              THEN ev.target = Placeholder /\ ev.result.note = "--"
              ELSE LET k == NoteIndex(ev.frequency)
                   IN  IF k < 0 \/ k >= 108
                       THEN ev.target = Placeholder /\ ev.result.note = "--"
                       ELSE /\ ev.target = [note |-> NOTE_NAMES[(k % 12) + 1],
                                            octave |-> k \div 12,
                                            frequency |-> NOTE_FREQUENCIES[k + 1].frequency]
                            /\ NOTE_FREQUENCIES[k + 1].note = ev.target.note
                            /\ ev.result.note = ev.target.note
                            /\ ev.result.octave = ev.target.octave
                            /\ k = 57 => ev.target.note = "A" /\ ev.target.octave = 4

\* C8 happens: a tick resolved a frequency above the table to the
\* placeholder and scheduled the next tick.
C8_OutOfRangeKeepsTicking ==
    /\ ev.op = "audioLoop" /\ ev.emitted = "result"
    /\ ev.frequency.k = "num"
    /\ NoteIndex(ev.frequency) >= 108
    /\ ev.target = Placeholder
    /\ ev.rescheduled

\* C9: for minLag >= 1, when the correlation loop ran, bestLag is the
\* smallest lag in minLag..maxLag-1 whose stored correlation is > 0 and
\* strictly greater than both stored neighbours; when there is no such lag,
\* or its correlation is below 0.01, the result is NoSignal.
C9_FirstPositivePeak ==
    (ev.analysed /\ minLagOf(contextSampleRate) >= 1
       /\ ~EstimateOf[ev.frame, contextSampleRate].gate)
        => LET c == CorrelationsOf[ev.frame, contextSampleRate]
               e == EstimateOf[ev.frame, contextSampleRate]
               Candidates ==
                   { lag \in minLagOf(contextSampleRate)..(maxLagOf(contextSampleRate) - 1) :
                       /\ ~c[lag].nan /\ ~c[lag + 1].nan /\ ~c[lag + 2].nan
                       /\ c[lag + 1].v > 0
                       /\ c[lag + 1].v > c[lag].v
                       /\ c[lag + 1].v > c[lag + 2].v }
           IN  IF Candidates = {}
               THEN e.value = NoSignal
               ELSE LET first == CHOOSE lag \in Candidates :
                                     \A other \in Candidates : lag <= other
                    IN  /\ e.bestLag = first
                        /\ c[first + 1].v * 100 < SampleUnit * SampleUnit
                             => e.value = NoSignal

\* C9 happens: a tick estimated a frequency from a first positive peak
\* although a later lag has a higher correlation.
C9_FirstPeakNotHighest ==
    /\ ev.analysed /\ minLagOf(contextSampleRate) >= 1
    /\ IsPositive(ev.frequency)
    /\ LET c == CorrelationsOf[ev.frame, contextSampleRate]
           e == EstimateOf[ev.frame, contextSampleRate]
       IN  \E lag \in (e.bestLag + 1)..maxLagOf(contextSampleRate) :
               ~c[lag + 1].nan /\ c[lag + 1].v > c[e.bestLag + 1].v

\* C10: every value autocorrelate returns other than NoSignal is a positive
\* finite frequency sampleRate / refinedLag with refinedLag > 0, and no
\* tick emits a detection result with a non-positive or non-finite frequency.
C10_FrequencyPositiveFinite ==
    ev.analysed =>
        LET e == EstimateOf[ev.frame, contextSampleRate]
        IN  /\ \/ e.value = NoSignal
               \/ /\ e.value.k = "num" /\ e.value.n > 0 /\ e.value.d > 0
                  /\ e.refinedLag.k = "num" /\ e.refinedLag.n > 0 /\ e.refinedLag.d > 0
                  /\ e.value = Ratio(contextSampleRate * e.refinedLag.d, e.refinedLag.n)
            /\ ev.emitted = "result"
                 => /\ ev.result.frequency.k = "num"
                    /\ ev.result.frequency.n > 0
                    /\ ev.result.frequency.d > 0

\* C10 happens: a tick emitted a result whose frequency comes from a lag the
\* parabolic refinement moved off the integer bestLag.
C10_RefinedResultEmitted ==
    /\ ev.analysed /\ ev.emitted = "result"
    /\ LET e == EstimateOf[ev.frame, contextSampleRate]
       IN  e.refinedLag # Num(e.bestLag, 1) /\ ev.result.frequency = e.value

=============================================================================
